---- MODULE Spec2Model ----
(***************************************************************************)
(* Model of the Cura temperature-offset extensions                         *)
(*   src/TempOffsetPlugin.py            (class TempOffsetPlugin)           *)
(*   src/MaterialTemperatureOffsetSetting.py                               *)
(*                                (class MaterialTemperatureOffsetSetting) *)
(*                                                                         *)
(* Text is modelled as a sequence of one-character strings, so that        *)
(* str.split, str.join, the substring test and the regular expression are  *)
(* computed character by character.  Python list index i is index i+1      *)
(* here: "segment 0" is gcode_list[1], "segment 1" is gcode_list[2].       *)
(* Numbers are fixed point, in millionths of a degree (Micro).             *)
(***************************************************************************)
EXTENDS Integers, Sequences, FiniteSets, TLC

VARIABLES
    variant,                \* which of the two extension classes is installed
    global_container_stack, \* TRUE iff Application.getGlobalContainerStack() is not None
    temp_offset_value,      \* value of the offset setting, in millionths
    gcode_dict,             \* scene.gcode_dict: plate id -> sequence of segments
    pre_dict,               \* history: gcode_dict when the last _filterGcode call began
    repaired_dict,          \* history: each plate's list when its line scan began in the last call
    outcome,                \* history: how the last _filterGcode call ended
    written,                \* history: the last call executed setattr(scene, "gcode_dict", ...)
    last_offset,            \* history: temp_offset_value read by the last call
    calls,                  \* history: number of _filterGcode calls so far
    loaded,                 \* ContainerRegistry: ids for which isLoaded() is true
    children,               \* container id -> keys of the children of its "material" category
    definition_cache,       \* container id -> keys in container._definition_cache
    delivered               \* history: container id -> containerLoadComplete signals handled

vars == <<variant, global_container_stack, temp_offset_value, gcode_dict, pre_dict,
          repaired_dict, outcome, written, last_offset, calls,
          loaded, children, definition_cache, delivered>>

filterVars == <<variant, global_container_stack, temp_offset_value, gcode_dict, pre_dict,
                repaired_dict, outcome, written, last_offset, calls>>

registryVars == <<loaded, children, definition_cache, delivered>>

----------------------------------------------------------------------------
(* Bounds of the model *)

\* _filterGcode calls explored
MaxCalls == 2

\* containerLoadComplete signals explored for each container id
MaxEvents == 2

----------------------------------------------------------------------------
(* Text *)

\* a local variable: x is evaluated once and F applied to its value
With(x, F(_)) == CHOOSE y \in {F(e) : e \in {x}} : TRUE

NL == "\n"

\* ";TEMPOFFSETPROCESSED\n"
PROCESSED_MARKER ==
    <<";","T","E","M","P","O","F","F","S","E","T","P","R","O","C","E","S","S","E","D",NL>>

\* ";LAYER:0\n"
LAYER_MARKER == <<";","L","A","Y","E","R",":","0",NL>>

\* " ;adjusted by temp offset"
ADJUSTED_COMMENT ==
    <<" ",";","a","d","j","u","s","t","e","d"," ","b","y"," ","t","e","m","p"," ",
      "o","f","f","s","e","t">>

c_M104 == <<"M","1","0","4">>

Digits == <<"0","1","2","3","4","5","6","7","8","9">>

IsDigit(c) == \E i \in 1..10 : Digits[i] = c

DigitVal(c) == (CHOOSE i \in 1..10 : Digits[i] = c) - 1

\* characters the pattern's \s accepts inside a line
Whitespace == {" ", "\t"}

\* str.find, 1-based; 0 when sub does not occur in s
Find(s, sub) ==
    LET hits == {i \in 1..(Len(s) - Len(sub) + 1) : SubSeq(s, i, i + Len(sub) - 1) = sub}
    IN  IF hits = {} THEN 0 ELSE CHOOSE i \in hits : \A j \in hits : i <= j

\* sub in s
Contains(s, sub) == Find(s, sub) # 0

\* s.split(sep): the chunks between the non-overlapping occurrences of sep, left to right
RECURSIVE Split(_, _)
Split(s, sep) ==
    With(Find(s, sep), LAMBDA i :
        IF i = 0 THEN <<s>>
        ELSE <<SubSeq(s, 1, i - 1)>> \o Split(SubSeq(s, i + Len(sep), Len(s)), sep))

\* sep.join(parts), for a non-empty sequence of parts
RECURSIVE Join(_, _)
Join(sep, parts) ==
    IF Len(parts) = 1 THEN parts[1]
    ELSE parts[1] \o sep \o Join(sep, Tail(parts))

----------------------------------------------------------------------------
(* Numbers *)

\* decimal places kept by round(..., 5)
RoundDigits == 5

\* decimal places the fixed-point unit holds: one more than rounding keeps
MicroDigits == RoundDigits + 1

RECURSIVE Pow10(_)
Pow10(n) == IF n = 0 THEN 1 ELSE 10 * Pow10(n - 1)

\* one degree, in the fixed-point unit
Micro == Pow10(MicroDigits)

\* number of leading decimal digits of s
RECURSIVE LeadingDigits(_)
LeadingDigits(s) ==
    IF s # <<>> /\ IsDigit(Head(s)) THEN 1 + LeadingDigits(Tail(s)) ELSE 0

\* value of a sequence of digits read as a natural number
RECURSIVE NatOf(_)
NatOf(ds) ==
    IF ds = <<>> THEN 0 ELSE 10 * NatOf(SubSeq(ds, 1, Len(ds) - 1)) + DigitVal(ds[Len(ds)])

\* digits of a natural number
RECURSIVE DigitsOf(_)
DigitsOf(n) ==
    IF n < 10 THEN <<Digits[n + 1]>> ELSE DigitsOf(n \div 10) \o <<Digits[(n % 10) + 1]>>

\* float(tok) for a token of digits, an optional "." and digits: ValueError when
\* the token holds no digit ("" and ".")
ToFloat(tok) ==
    With(LeadingDigits(tok), LAMBDA n1 :
        LET rest == SubSeq(tok, n1 + 1, Len(tok))
            frac == IF rest # <<>> /\ rest[1] = "." THEN SubSeq(rest, 2, Len(rest)) ELSE <<>>
            kept == SubSeq(frac, 1, IF Len(frac) < MicroDigits THEN Len(frac) ELSE MicroDigits)
        IN  IF n1 = 0 /\ frac = <<>>
            THEN [ok |-> FALSE, val |-> 0]
            ELSE [ok |-> TRUE,
                  val |-> NatOf(SubSeq(tok, 1, n1)) * Micro
                          + NatOf(kept) * Pow10(MicroDigits - Len(kept))])

\* round(x, 5) on a value in millionths
Round5(x) ==
    LET step == Pow10(MicroDigits - RoundDigits)
        q    == x \div step
        r    == x % step
    IN  IF 2 * r < step THEN q * step
        ELSE IF 2 * r > step THEN (q + 1) * step
        ELSE IF q % 2 = 0 THEN q * step ELSE (q + 1) * step

\* fraction digits with the trailing zeros removed, one digit at least
RECURSIVE StripZeros(_)
StripZeros(ds) ==
    IF Len(ds) > 1 /\ ds[Len(ds)] = "0" THEN StripZeros(SubSeq(ds, 1, Len(ds) - 1)) ELSE ds

\* n written with exactly w digits
RECURSIVE Padded(_, _)
Padded(n, w) == IF w = 0 THEN <<>> ELSE Padded(n \div 10, w - 1) \o <<Digits[(n % 10) + 1]>>

\* str(x) of a float in positional notation: "190.0", "202.62346", "-5.5"
Str(x) ==
    LET a == IF x < 0 THEN -x ELSE x
    IN  (IF x < 0 THEN <<"-">> ELSE <<>>)
        \o DigitsOf(a \div Micro) \o <<".">> \o StripZeros(Padded(a % Micro, MicroDigits))

----------------------------------------------------------------------------
\* hotend_temp_regex under fullmatch: group 1 is "M104", one whitespace character,
\* any text and an "S"; group 2 is digits, an optional "." and digits (each part
\* may be empty); group 3 is the rest of the line

\* position of the "S" that the greedy ".*S" binds: the last one after "M104" and
\* the whitespace character (0 when there is none)
LastS(line) ==
    LET cand == {i \in 6..Len(line) : line[i] = "S"}
    IN  IF cand = {} THEN 0 ELSE CHOOSE i \in cand : \A j \in cand : j <= i

\* hotend_temp_regex.fullmatch(line) is not None
Matches(line) ==
    /\ Len(line) >= 6
    /\ SubSeq(line, 1, 4) = c_M104
    /\ line[5] \in Whitespace
    /\ LastS(line) # 0

\* result.group(2): the longest numeric token right after the bound "S"
Group2(line) ==
    With(SubSeq(line, LastS(line) + 1, Len(line)), LAMBDA rest :
    With(LeadingDigits(rest), LAMBDA n1 :
        LET r1  == SubSeq(rest, n1 + 1, Len(rest))
            dot == IF r1 # <<>> /\ r1[1] = "." THEN 1 ELSE 0
            n2  == LeadingDigits(SubSeq(r1, dot + 1, Len(r1)))
        IN  SubSeq(rest, 1, n1 + dot + n2)))

\* the text written over an adjusted line
Rewritten(v, adjusted_temp) ==
    IF v = "TempOffsetPlugin"
    THEN c_M104 \o <<" ">> \o Str(adjusted_temp) \o ADJUSTED_COMMENT
    ELSE c_M104 \o <<" ", "S">> \o Str(adjusted_temp) \o ADJUSTED_COMMENT

----------------------------------------------------------------------------
(* _filterGcode *)

\* the loop over the lines of one segment, from line n on.  float() stands outside
\* the try block, so its ValueError leaves the handler (raised).  round() of a
\* finite sum raises nothing, so the except branch is never taken.
RECURSIVE ScanFrom(_, _, _, _)
ScanFrom(lines, n, offset, v) ==
    IF n > Len(lines) THEN [lines |-> lines, raised |-> FALSE]
    ELSE IF ~Matches(lines[n]) THEN ScanFrom(lines, n + 1, offset, v)
    ELSE With(ToFloat(Group2(lines[n])), LAMBDA parsed :
             IF ~parsed.ok THEN [lines |-> lines, raised |-> TRUE]
             ELSE IF parsed.val = 0 THEN ScanFrom(lines, n + 1, offset, v)
             ELSE [lines  |-> [lines EXCEPT ![n] = Rewritten(v, Round5(parsed.val + offset))],
                   raised |-> FALSE])

\* the loop over the lines without its break: every qualifying line is rewritten
RECURSIVE ScanAllFrom(_, _, _, _)
ScanAllFrom(lines, n, offset, v) ==
    IF n > Len(lines) THEN [lines |-> lines, raised |-> FALSE]
    ELSE IF ~Matches(lines[n]) THEN ScanAllFrom(lines, n + 1, offset, v)
    ELSE With(ToFloat(Group2(lines[n])), LAMBDA parsed :
             IF ~parsed.ok THEN [lines |-> lines, raised |-> TRUE]
             ELSE IF parsed.val = 0 THEN ScanAllFrom(lines, n + 1, offset, v)
             ELSE ScanAllFrom([lines EXCEPT ![n] = Rewritten(v, Round5(parsed.val + offset))],
                              n + 1, offset, v))

ScanLinesNoBreak(lines, offset, v) == ScanAllFrom(lines, 1, offset, v)

\* the loop over the lines with a break where the zero value has its continue
RECURSIVE ScanZeroStopsFrom(_, _, _, _)
ScanZeroStopsFrom(lines, n, offset, v) ==
    IF n > Len(lines) THEN [lines |-> lines, raised |-> FALSE]
    ELSE IF ~Matches(lines[n]) THEN ScanZeroStopsFrom(lines, n + 1, offset, v)
    ELSE With(ToFloat(Group2(lines[n])), LAMBDA parsed :
             IF ~parsed.ok THEN [lines |-> lines, raised |-> TRUE]
             ELSE IF parsed.val = 0 THEN [lines |-> lines, raised |-> FALSE]
             ELSE [lines  |-> [lines EXCEPT ![n] = Rewritten(v, Round5(parsed.val + offset))],
                   raised |-> FALSE])

ScanLinesZeroStops(lines, offset, v) == ScanZeroStopsFrom(lines, 1, offset, v)

\* the loop over the lines of one segment
ScanLines(lines, offset, v) == ScanFrom(lines, 1, offset, v)

\* the loop over the segments of one plate, from segment n on; a segment is
\* stored back only when its lines were scanned to the end or to the break
RECURSIVE ScanList(_, _, _, _)
ScanList(gcode_list, n, offset, v) ==
    IF n > Len(gcode_list) THEN [list |-> gcode_list, raised |-> FALSE]
    ELSE With(ScanLines(Split(gcode_list[n], <<NL>>), offset, v), LAMBDA r :
             IF r.raised THEN [list |-> gcode_list, raised |-> TRUE]
             ELSE ScanList([gcode_list EXCEPT ![n] = Join(<<NL>>, r.lines)], n + 1, offset, v))

\* layer 0 appended to the start gcode chunk: only chunks[0] and chunks[1] are kept
SplitLayer0(gcode_list) ==
    IF Contains(gcode_list[2], LAYER_MARKER)
    THEN With(Split(gcode_list[2], LAYER_MARKER), LAMBDA chunks :
             <<gcode_list[1], chunks[1], LAYER_MARKER \o chunks[2]>>
             \o SubSeq(gcode_list, 3, Len(gcode_list)))
    ELSE gcode_list

\* the marker appended to segment 0
AppendMarker(gcode_list) ==
    [gcode_list EXCEPT ![1] = @ \o PROCESSED_MARKER]

\* one iteration of the loop over the plates
ProcessPlate(gcode_list, offset, v) ==
    IF Len(gcode_list) < 2
    THEN [list |-> gcode_list, repaired |-> gcode_list, raised |-> FALSE, changed |-> FALSE]
    ELSE IF Contains(gcode_list[1], PROCESSED_MARKER)
    THEN [list |-> gcode_list, repaired |-> gcode_list, raised |-> FALSE, changed |-> FALSE]
    ELSE With(SplitLayer0(gcode_list), LAMBDA rep :
         With(ScanList(rep, 1, offset, v), LAMBDA r :
             IF r.raised
             THEN [list |-> r.list, repaired |-> rep, raised |-> TRUE, changed |-> FALSE]
             ELSE [list |-> AppendMarker(r.list), repaired |-> rep,
                   raised |-> FALSE, changed |-> TRUE]))

\* plate ids in the order the dict iterates them
PlateOrder == <<"plate1", "plate2">>

PlateIds == {PlateOrder[i] : i \in 1..Len(PlateOrder)}

\* the loop over the plates, from the n-th key on; the lists are mutated in place,
\* so what was done before an exception stays in the scene
RECURSIVE FilterFrom(_, _, _, _, _, _)
FilterFrom(d, rep, n, dict_changed, offset, v) ==
    IF n > Len(PlateOrder)
    THEN [dict |-> d, repaired |-> rep, raised |-> FALSE, dict_changed |-> dict_changed]
    ELSE IF PlateOrder[n] \notin DOMAIN d
    THEN FilterFrom(d, rep, n + 1, dict_changed, offset, v)
    ELSE With(ProcessPlate(d[PlateOrder[n]], offset, v), LAMBDA r :
         LET p    == PlateOrder[n]
             d2   == [d EXCEPT ![p] = r.list]
             rep2 == [rep EXCEPT ![p] = r.repaired]
         IN  IF r.raised
             THEN [dict |-> d2, repaired |-> rep2, raised |-> TRUE,
                   dict_changed |-> dict_changed]
             ELSE FilterFrom(d2, rep2, n + 1, dict_changed \/ r.changed, offset, v))

\* the empty dict
EmptyDict == [p \in {} |-> <<>>]

\* TempOffsetPlugin._filterGcode / MaterialTemperatureOffsetSetting._filterGcode
FilterGcode ==
    /\ calls < MaxCalls
    /\ calls' = calls + 1
    /\ pre_dict' = gcode_dict
    /\ last_offset' = temp_offset_value
    /\ IF ~global_container_stack \/ temp_offset_value = 0 \/ gcode_dict = EmptyDict
       THEN /\ gcode_dict' = gcode_dict
            /\ repaired_dict' = gcode_dict
            /\ outcome' = "returned"
            /\ written' = FALSE
       ELSE \E r \in {FilterFrom(gcode_dict, gcode_dict, 1, FALSE, temp_offset_value, variant)} :
                /\ gcode_dict' = r.dict
                /\ repaired_dict' = r.repaired
                /\ outcome' = IF r.raised THEN "raised" ELSE "returned"
                /\ written' = (~r.raised /\ r.dict_changed)
    /\ UNCHANGED <<variant, global_container_stack, temp_offset_value>>
    /\ UNCHANGED registryVars

----------------------------------------------------------------------------
(* The host: the scene, the setting and the active machine *)

Variants == {"TempOffsetPlugin", "MaterialTemperatureOffsetSetting"}

\* offsets the user sets: -10, 0 (the default_value) and 2.5 degrees
Offsets == {-10 * Micro, 0, 5 * (Micro \div 2)}

L_hdr   == <<";","h">>
L_g28   == <<"G","2","8">>
L_t200  == c_M104 \o <<" ","S","2","0","0">>
L_t210  == c_M104 \o <<" ","S","2","1","0">>
L_frac  == c_M104 \o <<" ","S","2","0","0",".","1","2","3","4","5","6">>
L_zero  == c_M104 \o <<" ","S","0">>
L_set   == c_M104 \o <<" ","S","2","0","0"," ",";","S","e","t">>
L_noval == c_M104 \o <<" ","S">>
L_dot   == c_M104 \o <<"\t","S",".">>
L_layer == <<";","L","A","Y","E","R",":","0">>

\* the text of the given lines, each but the last followed by a newline
Text(lines) == Join(<<NL>>, lines)

\* the text of the given lines, each followed by a newline
TextNL(lines) == Join(<<NL>>, lines) \o <<NL>>

\* the plates a slice produces
Plates ==
    { <<TextNL(<<L_hdr>>)>>,
      <<TextNL(<<L_hdr>>), TextNL(<<L_g28, L_t200, L_g28>>)>>,
      <<Text(<<L_hdr>>), TextNL(<<L_zero, L_t200, L_t210>>), TextNL(<<L_t210, L_t200>>)>>,
      <<Text(<<L_t200, L_t210>>), TextNL(<<L_g28>>), TextNL(<<L_set>>)>>,
      <<TextNL(<<L_hdr>>), Text(<<L_g28, L_layer, L_g28, L_frac>>)>>,
      <<TextNL(<<L_hdr>>), TextNL(<<L_g28, L_layer, L_t200, L_layer, L_t210>>),
        TextNL(<<L_t210, L_zero>>)>>,
      <<TextNL(<<L_t200>>), TextNL(<<L_noval>>)>>,
      <<TextNL(<<L_hdr>>), TextNL(<<L_zero, L_dot, L_t200>>)>> }

----------------------------------------------------------------------------
(* The host: the container registry *)

\* the containers the registry knows: two machine definitions with a "material"
\* category, one without, an extruder definition, an instance container and a
\* container whose file cannot be loaded
ContainerIds ==
    {"fdmprinter", "custom_printer", "bare_printer", "fdmextruder", "generic_pla", "broken"}

\* isinstance(container, DefinitionContainer)
IsDefinitionContainer(c) ==
    c \in {"fdmprinter", "custom_printer", "bare_printer", "fdmextruder"}

\* container.getMetaDataEntry("type")
MetaDataType(c) ==
    IF c = "fdmextruder" THEN "extruder"
    ELSE IF c = "generic_pla" THEN "material" ELSE "machine"

\* the definition file holds a "material" category
HasMaterialCategory(c) == c \in {"fdmprinter", "custom_printer", "fdmextruder"}

\* the container's file can be loaded
Loadable(c) == c # "broken"

\* self._settings_dict: its single key and the attributes deserialize() reads
SettingsDict(v) ==
    [key  |-> IF v = "TempOffsetPlugin" THEN "temp_offset" ELSE "material_temp_offset",
     type |-> "float",
     default_value |-> 0,
     minimum_value |-> -100,
     maximum_value |-> 100]

\* definition.deserialize(setting_dict) raises nothing: the type is a known one
Deserializes(setting_dict) == setting_dict.type \in {"float", "int", "bool", "str", "enum"}

\* ContainerRegistry.findContainers(id = container_id)
FindContainers(ld, container_id) ==
    IF container_id \in ld THEN <<container_id>> ELSE <<>>

\* container.findDefinitions(key = key): the cache first, then the definition tree
FindDefinitions(ch, dc, c, key) ==
    IF key \in dc[c] THEN <<key>>
    ELSE SelectSeq((IF HasMaterialCategory(c) THEN <<"material">> ELSE <<>>) \o ch[c],
                   LAMBDA k : k = key)

\* the handler without the test that the setting is not there yet
OnContainerLoadCompleteTwice(ld, ch, dc, container_id, v) ==
    IF  /\ container_id \in ld
        /\ IsDefinitionContainer(container_id)
        /\ MetaDataType(container_id) # "extruder"
        /\ FindDefinitions(ch, dc, container_id, "material") # <<>>
    THEN [children |-> [ch EXCEPT ![container_id] = Append(@, SettingsDict(v).key)],
          definition_cache |-> [dc EXCEPT ![container_id] = @ \cup {SettingsDict(v).key}]]
    ELSE [children |-> ch, definition_cache |-> dc]

\* _onContainerLoadComplete(container_id), on the registry state (ld, ch, dc).
\* findContainers() of a loaded id is not empty, so the IndexError branch returns
\* only for an id that is not there.  When deserialize() fails nothing is added:
\* MaterialTemperatureOffsetSetting goes on to the next key, TempOffsetPlugin
\* lets the exception leave the handler before the three assignments.
OnContainerLoadComplete(ld, ch, dc, container_id, v) ==
    IF container_id \notin ld
    THEN [children |-> ch, definition_cache |-> dc]
    ELSE IF FindContainers(ld, container_id) = <<>>
    THEN [children |-> ch, definition_cache |-> dc]
    ELSE IF ~IsDefinitionContainer(container_id)
    THEN [children |-> ch, definition_cache |-> dc]
    ELSE IF MetaDataType(container_id) = "extruder"
    THEN [children |-> ch, definition_cache |-> dc]
    ELSE LET material_category   == FindDefinitions(ch, dc, container_id, "material")
             temp_offset_setting == FindDefinitions(ch, dc, container_id, SettingsDict(v).key)
         IN  IF material_category # <<>> /\ temp_offset_setting = <<>>
                /\ Deserializes(SettingsDict(v))
             THEN [children |-> [ch EXCEPT ![container_id] = Append(@, SettingsDict(v).key)],
                   definition_cache |->
                       [dc EXCEPT ![container_id] = @ \cup {SettingsDict(v).key}]]
             ELSE [children |-> ch, definition_cache |-> dc]

Init ==
    /\ variant \in Variants
    /\ global_container_stack = FALSE
    /\ temp_offset_value = 0
    /\ gcode_dict = EmptyDict
    /\ pre_dict = EmptyDict
    /\ repaired_dict = EmptyDict
    /\ outcome = "none"
    /\ written = FALSE
    /\ last_offset = 0
    /\ calls = 0
    /\ loaded = {}
    /\ children = [c \in ContainerIds |->
                      IF HasMaterialCategory(c) THEN <<"material_print_temperature">> ELSE <<>>]
    /\ definition_cache = [c \in ContainerIds |->
                      IF HasMaterialCategory(c)
                      THEN {"material", "material_print_temperature"} ELSE {}]
    /\ delivered = [c \in ContainerIds |-> 0]

\* the host stores the sliced gcode of one build plate in scene.gcode_dict
SlicePlate(p, gcode_list) ==
    /\ global_container_stack
    /\ gcode_dict' = [q \in DOMAIN gcode_dict \cup {p} |->
                        IF q = p THEN gcode_list ELSE gcode_dict[q]]
    /\ pre_dict' = gcode_dict'
    /\ repaired_dict' = gcode_dict'
    /\ outcome' = "none"
    /\ written' = FALSE
    /\ last_offset' = 0
    /\ UNCHANGED <<variant, global_container_stack, temp_offset_value, calls>>
    /\ UNCHANGED registryVars

\* the user activates a machine
ActivateMachine ==
    /\ ~global_container_stack
    /\ global_container_stack' = TRUE
    /\ UNCHANGED <<variant, temp_offset_value, gcode_dict, pre_dict, repaired_dict,
                   outcome, written, last_offset, calls>>
    /\ UNCHANGED registryVars

\* the user changes the offset setting
SetOffset(value) ==
    /\ global_container_stack
    /\ value # temp_offset_value
    /\ temp_offset_value' = value
    /\ UNCHANGED <<variant, global_container_stack, gcode_dict, pre_dict, repaired_dict,
                   outcome, written, last_offset, calls>>
    /\ UNCHANGED registryVars

Next ==
    \/ \E p \in PlateIds, gl \in Plates : SlicePlate(p, gl)
    \/ ActivateMachine
    \/ \E value \in Offsets : SetOffset(value)
    \/ FilterGcode

Spec == Init /\ [][Next]_vars

\* the registry loads a container (or fails to) and emits containerLoadComplete,
\* which calls the handler
LoadContainer(container_id) ==
    /\ container_id \notin loaded
    /\ delivered[container_id] < MaxEvents
    /\ loaded' = IF Loadable(container_id) THEN loaded \cup {container_id} ELSE loaded
    /\ \E r \in {OnContainerLoadComplete(loaded', children, definition_cache,
                                          container_id, variant)} :
          /\ children' = r.children
          /\ definition_cache' = r.definition_cache
    /\ delivered' = [delivered EXCEPT ![container_id] = @ + 1]
    /\ UNCHANGED filterVars

\* containerLoadComplete is emitted again for a container id
ContainerLoadComplete(container_id) ==
    /\ delivered[container_id] >= 1
    /\ delivered[container_id] < MaxEvents
    /\ \E r \in {OnContainerLoadComplete(loaded, children, definition_cache,
                                          container_id, variant)} :
          /\ children' = r.children
          /\ definition_cache' = r.definition_cache
    /\ delivered' = [delivered EXCEPT ![container_id] = @ + 1]
    /\ UNCHANGED loaded
    /\ UNCHANGED filterVars

NextRegistry ==
    \/ \E c \in ContainerIds : LoadContainer(c)
    \/ \E c \in ContainerIds : ContainerLoadComplete(c)

SpecRegistry == Init /\ [][NextRegistry]_vars

----------------------------------------------------------------------------
(* Vocabulary of the properties *)

\* segment 0 of the plate holds the processed marker
HasMarker(gcode_list) == Contains(gcode_list[1], PROCESSED_MARKER)

\* the plate is one the loop does not skip
Eligible(gcode_list) == Len(gcode_list) >= 2 /\ ~HasMarker(gcode_list)

\* the state is the one the last call left, and that call ran the loop over the plates
Invoked ==
    /\ outcome # "none"
    /\ global_container_stack
    /\ last_offset # 0
    /\ pre_dict # EmptyDict

\* the last call scanned plate p to the end and appended the marker
Processed(p) ==
    /\ Invoked
    /\ p \in DOMAIN pre_dict
    /\ Eligible(pre_dict[p])
    /\ HasMarker(gcode_dict[p])

\* segment i of plate p as the scan left it: segment 0 without the appended marker
Scanned(p, i) ==
    IF i = 1
    THEN SubSeq(gcode_dict[p][1], 1, Len(gcode_dict[p][1]) - Len(PROCESSED_MARKER))
    ELSE gcode_dict[p][i]

\* the line matches the pattern and its number parses to a non-zero value
Qualifies(line) ==
    Matches(line) /\ ToFloat(Group2(line)).ok /\ ToFloat(Group2(line)).val # 0

\* the line matches the pattern and its number parses to zero
IsZeroTemp(line) ==
    Matches(line) /\ ToFloat(Group2(line)).ok /\ ToFloat(Group2(line)).val = 0

\* the line is a rewritten temperature command
IsAdjusted(line) ==
    /\ Len(line) > Len(c_M104) + Len(ADJUSTED_COMMENT)
    /\ SubSeq(line, 1, Len(c_M104)) = c_M104
    /\ SubSeq(line, Len(line) - Len(ADJUSTED_COMMENT) + 1, Len(line)) = ADJUSTED_COMMENT

\* the first index of a qualifying line, 0 when there is none
FirstQualifying(lines) ==
    LET q == {k \in 1..Len(lines) : Qualifies(lines[k])}
    IN  IF q = {} THEN 0 ELSE CHOOSE k \in q : \A j \in q : k <= j

\* the newline-terminated lines of a text, and its unterminated last line if any
LinesOf(text) ==
    LET parts == Split(text, <<NL>>)
    IN  IF parts[Len(parts)] = <<>> THEN SubSeq(parts, 1, Len(parts) - 1) ELSE parts

\* the text that stands, after the call, where segment i of plate p stood before it
\* (segment 1 may have been split in two)
After(p, i) ==
    IF Len(gcode_dict[p]) = Len(pre_dict[p]) THEN gcode_dict[p][i]
    ELSE IF i = 1 THEN gcode_dict[p][1]
    ELSE IF i = 2 THEN gcode_dict[p][2] \o gcode_dict[p][3]
    ELSE gcode_dict[p][i + 1]

----------------------------------------------------------------------------
(* Properties *)

\* C1: a second call of _filterGcode with the same non-zero offset, on the scene
\* as the first call left it, changes no segment of any plate.
C1_Idempotent ==
    [][ ( /\ calls' = calls + 1
          /\ outcome # "none"
          /\ global_container_stack
          /\ last_offset # 0
          /\ temp_offset_value = last_offset )
        => gcode_dict' = gcode_dict ]_vars

\* C2: _filterGcode never raises: whatever the matching lines hold, the call
\* returns and every plate it does not skip has been scanned to the end.
C2_NeverRaises ==
    Invoked =>
        /\ outcome = "returned"
        /\ \A p \in DOMAIN pre_dict : Eligible(pre_dict[p]) => HasMarker(gcode_dict[p])

\* C3: in every segment of a processed plate exactly the first line that matches
\* with a non-zero value is rewritten and every other line, later matching lines
\* included, is as it was when the scan began; this holds segment by segment.
C3_SingleAdjustment ==
    \A p \in DOMAIN gcode_dict :
        Processed(p) =>
            /\ Len(gcode_dict[p]) = Len(repaired_dict[p])
            /\ \A i \in 1..Len(gcode_dict[p]) :
                  LET before == Split(repaired_dict[p][i], <<NL>>)
                      after  == Split(Scanned(p, i), <<NL>>)
                      k0     == FirstQualifying(before)
                  IN  /\ Len(after) = Len(before)
                      /\ \A k \in 1..Len(before) :
                            IF k = k0
                            THEN after[k] # before[k] /\ IsAdjusted(after[k])
                            ELSE after[k] = before[k]

\* C3 witness: a processed plate with a segment holding two qualifying lines, of
\* which the first is rewritten and the second untouched, and with a later segment
\* whose first qualifying line is rewritten too.
C3_Witness ==
    \E p \in DOMAIN gcode_dict :
        /\ Processed(p)
        /\ \E i \in 1..Len(repaired_dict[p]), j \in 1..Len(repaired_dict[p]) :
              LET before == Split(repaired_dict[p][i], <<NL>>)
                  after  == Split(Scanned(p, i), <<NL>>)
                  k0     == FirstQualifying(before)
              IN  /\ i < j
                  /\ k0 # 0
                  /\ IsAdjusted(after[k0])
                  /\ \E k \in (k0 + 1)..Len(before) :
                        Qualifies(before[k]) /\ after[k] = before[k]
                  /\ FirstQualifying(Split(repaired_dict[p][j], <<NL>>)) # 0
                  /\ Scanned(p, j) # repaired_dict[p][j]

C5_RepairKeepsText ==
    \A p \in DOMAIN gcode_dict :
        (Processed(p) /\ Contains(pre_dict[p][2], LAYER_MARKER)) =>
            LET old == pre_dict[p]
                new == repaired_dict[p]
            IN  /\ Len(new) = Len(old) + 1
                /\ new[1] = old[1]
                /\ new[2] \o new[3] = old[2]
                /\ SubSeq(new[3], 1, Len(LAYER_MARKER)) = LAYER_MARKER
                /\ \A i \in 3..Len(old) : new[i + 1] = old[i]

\* C6: in a processed plate every line that does not match the pattern stands,
\* after the call, at the same place of the same segment with the same bytes.
C6_UnmatchedPreserved ==
    \A p \in DOMAIN gcode_dict :
        Processed(p) =>
            \A i \in 1..Len(pre_dict[p]) :
                LET before == LinesOf(pre_dict[p][i])
                    after  == LinesOf(After(p, i))
                IN  /\ Len(after) >= Len(before)
                    /\ \A k \in 1..Len(before) :
                          ~Matches(before[k]) => after[k] = before[k]

\* C7: after a plate is processed, segment 0 ends with the marker and the marker
\* is a line of its own: it starts the segment or follows a newline.
C7_MarkerOwnLine ==
    \A p \in DOMAIN gcode_dict :
        Processed(p) =>
            LET s0 == gcode_dict[p][1]
                n  == Len(s0) - Len(PROCESSED_MARKER)
            IN  /\ n >= 0
                /\ SubSeq(s0, n + 1, Len(s0)) = PROCESSED_MARKER
                /\ (n = 0 \/ s0[n] = NL)

\* C8: in one call a plate with fewer than 2 segments and a plate that holds the
\* marker are left as they were, every other plate is processed, and the mapping
\* is written back exactly when some plate was processed.
C8_IndependentSkips ==
    Invoked =>
        /\ \A p \in DOMAIN pre_dict :
              IF Eligible(pre_dict[p])
              THEN HasMarker(gcode_dict[p])
              ELSE gcode_dict[p] = pre_dict[p]
        /\ written <=> (\E p \in DOMAIN pre_dict : Eligible(pre_dict[p]))

\* the number of times key occurs in seq
Occurrences(seq, key) == Cardinality({k \in 1..Len(seq) : seq[k] = key})

\* C9: whatever containerLoadComplete signals were handled, a loaded definition
\* container that is no extruder and has a "material" category holds the offset
\* setting exactly once among the children of that category and in its cache,
\* and every other container holds it nowhere.
C9_RegisteredOnce ==
    \A c \in ContainerIds :
        LET key == SettingsDict(variant).key
        IN  IF  /\ c \in loaded
                /\ IsDefinitionContainer(c)
                /\ MetaDataType(c) # "extruder"
                /\ HasMaterialCategory(c)
            THEN Occurrences(children[c], key) = 1 /\ key \in definition_cache[c]
            ELSE Occurrences(children[c], key) = 0 /\ key \notin definition_cache[c]

\* C9 witness: the signal was handled more than once for a machine definition
\* that holds the setting, and was handled for an extruder definition, an
\* instance container, a machine without the category and an unloadable one.
C9_Witness ==
    /\ delivered["fdmprinter"] >= 2
    /\ Occurrences(children["fdmprinter"], SettingsDict(variant).key) = 1
    /\ delivered["fdmextruder"] >= 1
    /\ delivered["generic_pla"] >= 1
    /\ delivered["bare_printer"] >= 1
    /\ delivered["broken"] >= 1

\* C10: when a call has ended, by a return or by an exception, every plate is
\* either as it was before the call or holds the marker in segment 0.
C10_MarkedOrUntouched ==
    outcome # "none" =>
        \A p \in DOMAIN gcode_dict :
            gcode_dict[p] = pre_dict[p] \/ HasMarker(gcode_dict[p])

====
